---- MODULE Spec2Model ----
(***************************************************************************)
(* Model of the Mock Interviewer API (src/main.py): two rate-limited HTTP  *)
(* handlers, generate_questions (cached in Redis for one hour) and          *)
(* analyze_responses, in front of a chat-completion model.                  *)
(*                                                                          *)
(* Text is modelled as Python sees it.  A question text is a sequence of    *)
(* one-character strings; split, strip, slicing, str() of a list and eval() *)
(* are computed character by character.  A feedback text is a sequence of   *)
(* lexemes (fence marker, line break, brace, one "key": value member, a     *)
(* scalar), on which startswith, split, rsplit and json.loads are computed. *)
(***************************************************************************)
EXTENDS Integers, Sequences, FiniteSets, TLC

(***************************************************************************)
(* Characters                                                               *)
(***************************************************************************)
\* The characters U+0000 to U+00FF in order: Latin1[n + 1] is chr(n).  A
\* character that a string of this notation does not hold, which is the null
\* character, the grave accent and every character above U+00FF, goes by its
\* name: "U+" and its code point in four to six upper-case hexadecimal digits.
Latin1 ==
    <<"U+0000", "", "", "", "", "", "", "",
      "", "\t", "\n", "", "\f", "\r", "", "",
      "", "", "", "", "", "", "", "",
      "", "", "", "", "", "", "", "",
      " ", "!", "\"", "#", "$", "%", "&", "'",
      "(", ")", "*", "+", ",", "-", ".", "/",
      "0", "1", "2", "3", "4", "5", "6", "7",
      "8", "9", ":", ";", "<", "=", ">", "?",
      "@", "A", "B", "C", "D", "E", "F", "G",
      "H", "I", "J", "K", "L", "M", "N", "O",
      "P", "Q", "R", "S", "T", "U", "V", "W",
      "X", "Y", "Z", "[", "\\", "]", "^", "_",
      "U+0060", "a", "b", "c", "d", "e", "f", "g",
      "h", "i", "j", "k", "l", "m", "n", "o",
      "p", "q", "r", "s", "t", "u", "v", "w",
      "x", "y", "z", "{", "|", "}", "~", "",
      "", "", "", "", "", "", "", "",
      "", "", "", "", "", "", "", "",
      "", "", "", "", "", "", "", "",
      "", "", "", "", "", "", "", "",
      " ", "¡", "¢", "£", "¤", "¥", "¦", "§",
      "¨", "©", "ª", "«", "¬", "­", "®", "¯",
      "°", "±", "²", "³", "´", "µ", "¶", "·",
      "¸", "¹", "º", "»", "¼", "½", "¾", "¿",
      "À", "Á", "Â", "Ã", "Ä", "Å", "Æ", "Ç",
      "È", "É", "Ê", "Ë", "Ì", "Í", "Î", "Ï",
      "Ð", "Ñ", "Ò", "Ó", "Ô", "Õ", "Ö", "×",
      "Ø", "Ù", "Ú", "Û", "Ü", "Ý", "Þ", "ß",
      "à", "á", "â", "ã", "ä", "å", "æ", "ç",
      "è", "é", "ê", "ë", "ì", "í", "î", "ï",
      "ð", "ñ", "ò", "ó", "ô", "õ", "ö", "÷",
      "ø", "ù", "ú", "û", "ü", "ý", "þ", "ÿ">>

HexUpper == <<"0", "1", "2", "3", "4", "5", "6", "7", "8", "9",
              "A", "B", "C", "D", "E", "F">>

HexLower == <<"0", "1", "2", "3", "4", "5", "6", "7", "8", "9",
              "a", "b", "c", "d", "e", "f">>

\* n in hexadecimal, in w digits or more, as one string
RECURSIVE HexText(_, _)
HexText(n, w) ==
    IF n = 0 /\ w <= 0 THEN ""
    ELSE HexText(n \div 16, w - 1) \o HexUpper[(n % 16) + 1]

NameOf(n) == "U+" \o HexText(n, 4)

\* chr(n)
Chr(n) == IF n < 256 THEN Latin1[n + 1] ELSE NameOf(n)

HexDigits == {HexUpper[i] : i \in 1..16} \cup {HexLower[i] : i \in 1..16}

HexValue(c) == (CHOOSE i \in 1..16 : HexUpper[i] = c \/ HexLower[i] = c) - 1

Latin1Code == [c \in {Latin1[i] : i \in 1..256} |-> (CHOOSE i \in 1..256 : Latin1[i] = c) - 1]

\* The number that the hexadecimal digits of a name spell, from its k-th on.
RECURSIVE NameValue(_, _, _)
NameValue(name, k, acc) ==
    IF k > Len(name) THEN acc
    ELSE NameValue(name, k + 1, acc * 16 + HexValue(SubSeq(name, k, k)))

\* ord(c)
Ord(c) == IF c \in DOMAIN Latin1Code THEN Latin1Code[c] ELSE NameValue(c, 3, 0)

NUL == Chr(0)

NL == "\n"

CR == "\r"

\* The characters for which str.isspace() is true: str.strip() removes them.
SpaceCodes ==
    (9..13) \cup (28..32) \cup {133, 160, 5760} \cup (8192..8202) \cup
    {8232, 8233, 8239, 8287, 12288}

Spaces == {Chr(n) : n \in SpaceCodes}

IsSpace(c) == c \in Spaces

\* The code points for which str.isdigit() is true (Unicode 14, Python 3.11):
\* the decimal digits of every script and the digits written as superscripts,
\* subscripts and in circles.
DigitRanges ==
    {<<48, 57>>, <<178, 179>>, <<185, 185>>, <<1632, 1641>>, <<1776, 1785>>,
     <<1984, 1993>>, <<2406, 2415>>, <<2534, 2543>>, <<2662, 2671>>,
     <<2790, 2799>>, <<2918, 2927>>, <<3046, 3055>>, <<3174, 3183>>,
     <<3302, 3311>>, <<3430, 3439>>, <<3558, 3567>>, <<3664, 3673>>,
     <<3792, 3801>>, <<3872, 3881>>, <<4160, 4169>>, <<4240, 4249>>,
     <<4969, 4977>>, <<6112, 6121>>, <<6160, 6169>>, <<6470, 6479>>,
     <<6608, 6618>>, <<6784, 6793>>, <<6800, 6809>>, <<6992, 7001>>,
     <<7088, 7097>>, <<7232, 7241>>, <<7248, 7257>>, <<8304, 8304>>,
     <<8308, 8313>>, <<8320, 8329>>, <<9312, 9320>>, <<9332, 9340>>,
     <<9352, 9360>>, <<9450, 9450>>, <<9461, 9469>>, <<9471, 9471>>,
     <<10102, 10110>>, <<10112, 10120>>, <<10122, 10130>>, <<42528, 42537>>,
     <<43216, 43225>>, <<43264, 43273>>, <<43472, 43481>>, <<43504, 43513>>,
     <<43600, 43609>>, <<44016, 44025>>, <<65296, 65305>>, <<66720, 66729>>,
     <<68160, 68163>>, <<68912, 68921>>, <<69216, 69224>>, <<69714, 69722>>,
     <<69734, 69743>>, <<69872, 69881>>, <<69942, 69951>>, <<70096, 70105>>,
     <<70384, 70393>>, <<70736, 70745>>, <<70864, 70873>>, <<71248, 71257>>,
     <<71360, 71369>>, <<71472, 71481>>, <<71904, 71913>>, <<72016, 72025>>,
     <<72784, 72793>>, <<73040, 73049>>, <<73120, 73129>>, <<92768, 92777>>,
     <<92864, 92873>>, <<93008, 93017>>, <<120782, 120831>>,
     <<123200, 123209>>, <<123632, 123641>>, <<125264, 125273>>,
     <<127232, 127242>>, <<130032, 130041>>}

Digits == {Chr(n) : n \in UNION {r[1]..r[2] : r \in DigitRanges}}

IsDigit(c) == c \in Digits

(***************************************************************************)
(* Python string operations used by generate_questions                      *)
(***************************************************************************)

RECURSIVE LStrip(_)
LStrip(s) == IF s # <<>> /\ IsSpace(Head(s)) THEN LStrip(Tail(s)) ELSE s

RECURSIVE RStrip(_)
RStrip(s) ==
    IF s # <<>> /\ IsSpace(s[Len(s)]) THEN RStrip(SubSeq(s, 1, Len(s) - 1)) ELSE s

\* str.strip()
Strip(s) == RStrip(LStrip(s))

\* s[:n]
Slice(s, n) == SubSeq(s, 1, IF Len(s) < n THEN Len(s) ELSE n)

\* ". " in s
HasDotSpace(s) == \E i \in 1..(Len(s) - 1) : s[i] = "." /\ s[i + 1] = " "

\* text.split("\n"): the lines of a text, empty ones included
RECURSIVE SplitFrom(_, _, _)
SplitFrom(text, i, cur) ==
    IF i > Len(text) THEN <<cur>>
    ELSE IF text[i] = NL THEN <<cur>> \o SplitFrom(text, i + 1, <<>>)
    ELSE SplitFrom(text, i + 1, Append(cur, text[i]))

SplitLines(text) == SplitFrom(text, 1, <<>>)

\* "\n".join(lines)
RECURSIVE JoinLines(_)
JoinLines(lines) ==
    IF lines = <<>> THEN <<>>
    ELSE IF Len(lines) = 1 THEN lines[1]
    ELSE lines[1] \o <<NL>> \o JoinLines(Tail(lines))

\* The width of the slice in which ". " is looked for (main.py line 150).
MarkerSlice == 10

\* The number of questions a response must hold (main.py line 153).
QuestionCount == 5

\* The filter of the list comprehension:
\*   q.strip() and q.strip()[0].isdigit() and ". " in q.strip()[:10]
KeepsLine(q) ==
    LET s == Strip(q) IN
    /\ s # <<>>
    /\ IsDigit(s[1])
    /\ HasDotSpace(Slice(s, MarkerSlice))

\* questions = [q.strip() for q in content.split("\n") if <filter>]
RECURSIVE StripKept(_)
StripKept(lines) ==
    IF lines = <<>> THEN <<>>
    ELSE IF KeepsLine(Head(lines))
         THEN <<Strip(Head(lines))>> \o StripKept(Tail(lines))
         ELSE StripKept(Tail(lines))

ExtractQuestions(text) == StripKept(SplitLines(text))

\* A count check that lets a longer list through.
CountAcceptedAtLeast(questions) == Len(questions) >= QuestionCount

\* if len(questions) != 5: raise HTTPException(500)
CountAccepted(questions) == Len(questions) = QuestionCount

(***************************************************************************)
(* str(questions) and eval(cached_questions)                                *)
(***************************************************************************)
Chars(s) == {s[i] : i \in 1..Len(s)}

\* repr of a str picks double quotes when the string holds ' and no ".
QuoteOf(s) == IF "'" \in Chars(s) /\ "\"" \notin Chars(s) THEN "\"" ELSE "'"

\* n in w lower-case hexadecimal digits, one character each
RECURSIVE HexSeq(_, _)
HexSeq(n, w) ==
    IF w = 0 THEN <<>> ELSE Append(HexSeq(n \div 16, w - 1), HexLower[(n % 16) + 1])

\* The code points for which str.isprintable() is false (Unicode 14, Python
\* 3.11): the control and format characters, the separators but the space, the
\* surrogates, the private-use and the unassigned code points.
UnprintableRanges ==
    {<<0, 31>>, <<127, 160>>, <<173, 173>>, <<888, 889>>, <<896, 899>>,
     <<907, 907>>, <<909, 909>>, <<930, 930>>, <<1328, 1328>>, <<1367, 1368>>,
     <<1419, 1420>>, <<1424, 1424>>, <<1480, 1487>>, <<1515, 1518>>,
     <<1525, 1541>>, <<1564, 1564>>, <<1757, 1757>>, <<1806, 1807>>,
     <<1867, 1868>>, <<1970, 1983>>, <<2043, 2044>>, <<2094, 2095>>,
     <<2111, 2111>>, <<2140, 2141>>, <<2143, 2143>>, <<2155, 2159>>,
     <<2191, 2199>>, <<2274, 2274>>, <<2436, 2436>>, <<2445, 2446>>,
     <<2449, 2450>>, <<2473, 2473>>, <<2481, 2481>>, <<2483, 2485>>,
     <<2490, 2491>>, <<2501, 2502>>, <<2505, 2506>>, <<2511, 2518>>,
     <<2520, 2523>>, <<2526, 2526>>, <<2532, 2533>>, <<2559, 2560>>,
     <<2564, 2564>>, <<2571, 2574>>, <<2577, 2578>>, <<2601, 2601>>,
     <<2609, 2609>>, <<2612, 2612>>, <<2615, 2615>>, <<2618, 2619>>,
     <<2621, 2621>>, <<2627, 2630>>, <<2633, 2634>>, <<2638, 2640>>,
     <<2642, 2648>>, <<2653, 2653>>, <<2655, 2661>>, <<2679, 2688>>,
     <<2692, 2692>>, <<2702, 2702>>, <<2706, 2706>>, <<2729, 2729>>,
     <<2737, 2737>>, <<2740, 2740>>, <<2746, 2747>>, <<2758, 2758>>,
     <<2762, 2762>>, <<2766, 2767>>, <<2769, 2783>>, <<2788, 2789>>,
     <<2802, 2808>>, <<2816, 2816>>, <<2820, 2820>>, <<2829, 2830>>,
     <<2833, 2834>>, <<2857, 2857>>, <<2865, 2865>>, <<2868, 2868>>,
     <<2874, 2875>>, <<2885, 2886>>, <<2889, 2890>>, <<2894, 2900>>,
     <<2904, 2907>>, <<2910, 2910>>, <<2916, 2917>>, <<2936, 2945>>,
     <<2948, 2948>>, <<2955, 2957>>, <<2961, 2961>>, <<2966, 2968>>,
     <<2971, 2971>>, <<2973, 2973>>, <<2976, 2978>>, <<2981, 2983>>,
     <<2987, 2989>>, <<3002, 3005>>, <<3011, 3013>>, <<3017, 3017>>,
     <<3022, 3023>>, <<3025, 3030>>, <<3032, 3045>>, <<3067, 3071>>,
     <<3085, 3085>>, <<3089, 3089>>, <<3113, 3113>>, <<3130, 3131>>,
     <<3141, 3141>>, <<3145, 3145>>, <<3150, 3156>>, <<3159, 3159>>,
     <<3163, 3164>>, <<3166, 3167>>, <<3172, 3173>>, <<3184, 3190>>,
     <<3213, 3213>>, <<3217, 3217>>, <<3241, 3241>>, <<3252, 3252>>,
     <<3258, 3259>>, <<3269, 3269>>, <<3273, 3273>>, <<3278, 3284>>,
     <<3287, 3292>>, <<3295, 3295>>, <<3300, 3301>>, <<3312, 3312>>,
     <<3315, 3327>>, <<3341, 3341>>, <<3345, 3345>>, <<3397, 3397>>,
     <<3401, 3401>>, <<3408, 3411>>, <<3428, 3429>>, <<3456, 3456>>,
     <<3460, 3460>>, <<3479, 3481>>, <<3506, 3506>>, <<3516, 3516>>,
     <<3518, 3519>>, <<3527, 3529>>, <<3531, 3534>>, <<3541, 3541>>,
     <<3543, 3543>>, <<3552, 3557>>, <<3568, 3569>>, <<3573, 3584>>,
     <<3643, 3646>>, <<3676, 3712>>, <<3715, 3715>>, <<3717, 3717>>,
     <<3723, 3723>>, <<3748, 3748>>, <<3750, 3750>>, <<3774, 3775>>,
     <<3781, 3781>>, <<3783, 3783>>, <<3790, 3791>>, <<3802, 3803>>,
     <<3808, 3839>>, <<3912, 3912>>, <<3949, 3952>>, <<3992, 3992>>,
     <<4029, 4029>>, <<4045, 4045>>, <<4059, 4095>>, <<4294, 4294>>,
     <<4296, 4300>>, <<4302, 4303>>, <<4681, 4681>>, <<4686, 4687>>,
     <<4695, 4695>>, <<4697, 4697>>, <<4702, 4703>>, <<4745, 4745>>,
     <<4750, 4751>>, <<4785, 4785>>, <<4790, 4791>>, <<4799, 4799>>,
     <<4801, 4801>>, <<4806, 4807>>, <<4823, 4823>>, <<4881, 4881>>,
     <<4886, 4887>>, <<4955, 4956>>, <<4989, 4991>>, <<5018, 5023>>,
     <<5110, 5111>>, <<5118, 5119>>, <<5760, 5760>>, <<5789, 5791>>,
     <<5881, 5887>>, <<5910, 5918>>, <<5943, 5951>>, <<5972, 5983>>,
     <<5997, 5997>>, <<6001, 6001>>, <<6004, 6015>>, <<6110, 6111>>,
     <<6122, 6127>>, <<6138, 6143>>, <<6158, 6158>>, <<6170, 6175>>,
     <<6265, 6271>>, <<6315, 6319>>, <<6390, 6399>>, <<6431, 6431>>,
     <<6444, 6447>>, <<6460, 6463>>, <<6465, 6467>>, <<6510, 6511>>,
     <<6517, 6527>>, <<6572, 6575>>, <<6602, 6607>>, <<6619, 6621>>,
     <<6684, 6685>>, <<6751, 6751>>, <<6781, 6782>>, <<6794, 6799>>,
     <<6810, 6815>>, <<6830, 6831>>, <<6863, 6911>>, <<6989, 6991>>,
     <<7039, 7039>>, <<7156, 7163>>, <<7224, 7226>>, <<7242, 7244>>,
     <<7305, 7311>>, <<7355, 7356>>, <<7368, 7375>>, <<7419, 7423>>,
     <<7958, 7959>>, <<7966, 7967>>, <<8006, 8007>>, <<8014, 8015>>,
     <<8024, 8024>>, <<8026, 8026>>, <<8028, 8028>>, <<8030, 8030>>,
     <<8062, 8063>>, <<8117, 8117>>, <<8133, 8133>>, <<8148, 8149>>,
     <<8156, 8156>>, <<8176, 8177>>, <<8181, 8181>>, <<8191, 8207>>,
     <<8232, 8239>>, <<8287, 8303>>, <<8306, 8307>>, <<8335, 8335>>,
     <<8349, 8351>>, <<8385, 8399>>, <<8433, 8447>>, <<8588, 8591>>,
     <<9255, 9279>>, <<9291, 9311>>, <<11124, 11125>>, <<11158, 11158>>,
     <<11508, 11512>>, <<11558, 11558>>, <<11560, 11564>>, <<11566, 11567>>,
     <<11624, 11630>>, <<11633, 11646>>, <<11671, 11679>>, <<11687, 11687>>,
     <<11695, 11695>>, <<11703, 11703>>, <<11711, 11711>>, <<11719, 11719>>,
     <<11727, 11727>>, <<11735, 11735>>, <<11743, 11743>>, <<11870, 11903>>,
     <<11930, 11930>>, <<12020, 12031>>, <<12246, 12271>>, <<12284, 12288>>,
     <<12352, 12352>>, <<12439, 12440>>, <<12544, 12548>>, <<12592, 12592>>,
     <<12687, 12687>>, <<12772, 12783>>, <<12831, 12831>>, <<42125, 42127>>,
     <<42183, 42191>>, <<42540, 42559>>, <<42744, 42751>>, <<42955, 42959>>,
     <<42962, 42962>>, <<42964, 42964>>, <<42970, 42993>>, <<43053, 43055>>,
     <<43066, 43071>>, <<43128, 43135>>, <<43206, 43213>>, <<43226, 43231>>,
     <<43348, 43358>>, <<43389, 43391>>, <<43470, 43470>>, <<43482, 43485>>,
     <<43519, 43519>>, <<43575, 43583>>, <<43598, 43599>>, <<43610, 43611>>,
     <<43715, 43738>>, <<43767, 43776>>, <<43783, 43784>>, <<43791, 43792>>,
     <<43799, 43807>>, <<43815, 43815>>, <<43823, 43823>>, <<43884, 43887>>,
     <<44014, 44015>>, <<44026, 44031>>, <<55204, 55215>>, <<55239, 55242>>,
     <<55292, 63743>>, <<64110, 64111>>, <<64218, 64255>>, <<64263, 64274>>,
     <<64280, 64284>>, <<64311, 64311>>, <<64317, 64317>>, <<64319, 64319>>,
     <<64322, 64322>>, <<64325, 64325>>, <<64451, 64466>>, <<64912, 64913>>,
     <<64968, 64974>>, <<64976, 65007>>, <<65050, 65055>>, <<65107, 65107>>,
     <<65127, 65127>>, <<65132, 65135>>, <<65141, 65141>>, <<65277, 65280>>,
     <<65471, 65473>>, <<65480, 65481>>, <<65488, 65489>>, <<65496, 65497>>,
     <<65501, 65503>>, <<65511, 65511>>, <<65519, 65531>>, <<65534, 65535>>,
     <<65548, 65548>>, <<65575, 65575>>, <<65595, 65595>>, <<65598, 65598>>,
     <<65614, 65615>>, <<65630, 65663>>, <<65787, 65791>>, <<65795, 65798>>,
     <<65844, 65846>>, <<65935, 65935>>, <<65949, 65951>>, <<65953, 65999>>,
     <<66046, 66175>>, <<66205, 66207>>, <<66257, 66271>>, <<66300, 66303>>,
     <<66340, 66348>>, <<66379, 66383>>, <<66427, 66431>>, <<66462, 66462>>,
     <<66500, 66503>>, <<66518, 66559>>, <<66718, 66719>>, <<66730, 66735>>,
     <<66772, 66775>>, <<66812, 66815>>, <<66856, 66863>>, <<66916, 66926>>,
     <<66939, 66939>>, <<66955, 66955>>, <<66963, 66963>>, <<66966, 66966>>,
     <<66978, 66978>>, <<66994, 66994>>, <<67002, 67002>>, <<67005, 67071>>,
     <<67383, 67391>>, <<67414, 67423>>, <<67432, 67455>>, <<67462, 67462>>,
     <<67505, 67505>>, <<67515, 67583>>, <<67590, 67591>>, <<67593, 67593>>,
     <<67638, 67638>>, <<67641, 67643>>, <<67645, 67646>>, <<67670, 67670>>,
     <<67743, 67750>>, <<67760, 67807>>, <<67827, 67827>>, <<67830, 67834>>,
     <<67868, 67870>>, <<67898, 67902>>, <<67904, 67967>>, <<68024, 68027>>,
     <<68048, 68049>>, <<68100, 68100>>, <<68103, 68107>>, <<68116, 68116>>,
     <<68120, 68120>>, <<68150, 68151>>, <<68155, 68158>>, <<68169, 68175>>,
     <<68185, 68191>>, <<68256, 68287>>, <<68327, 68330>>, <<68343, 68351>>,
     <<68406, 68408>>, <<68438, 68439>>, <<68467, 68471>>, <<68498, 68504>>,
     <<68509, 68520>>, <<68528, 68607>>, <<68681, 68735>>, <<68787, 68799>>,
     <<68851, 68857>>, <<68904, 68911>>, <<68922, 69215>>, <<69247, 69247>>,
     <<69290, 69290>>, <<69294, 69295>>, <<69298, 69375>>, <<69416, 69423>>,
     <<69466, 69487>>, <<69514, 69551>>, <<69580, 69599>>, <<69623, 69631>>,
     <<69710, 69713>>, <<69750, 69758>>, <<69821, 69821>>, <<69827, 69839>>,
     <<69865, 69871>>, <<69882, 69887>>, <<69941, 69941>>, <<69960, 69967>>,
     <<70007, 70015>>, <<70112, 70112>>, <<70133, 70143>>, <<70162, 70162>>,
     <<70207, 70271>>, <<70279, 70279>>, <<70281, 70281>>, <<70286, 70286>>,
     <<70302, 70302>>, <<70314, 70319>>, <<70379, 70383>>, <<70394, 70399>>,
     <<70404, 70404>>, <<70413, 70414>>, <<70417, 70418>>, <<70441, 70441>>,
     <<70449, 70449>>, <<70452, 70452>>, <<70458, 70458>>, <<70469, 70470>>,
     <<70473, 70474>>, <<70478, 70479>>, <<70481, 70486>>, <<70488, 70492>>,
     <<70500, 70501>>, <<70509, 70511>>, <<70517, 70655>>, <<70748, 70748>>,
     <<70754, 70783>>, <<70856, 70863>>, <<70874, 71039>>, <<71094, 71095>>,
     <<71134, 71167>>, <<71237, 71247>>, <<71258, 71263>>, <<71277, 71295>>,
     <<71354, 71359>>, <<71370, 71423>>, <<71451, 71452>>, <<71468, 71471>>,
     <<71495, 71679>>, <<71740, 71839>>, <<71923, 71934>>, <<71943, 71944>>,
     <<71946, 71947>>, <<71956, 71956>>, <<71959, 71959>>, <<71990, 71990>>,
     <<71993, 71994>>, <<72007, 72015>>, <<72026, 72095>>, <<72104, 72105>>,
     <<72152, 72153>>, <<72165, 72191>>, <<72264, 72271>>, <<72355, 72367>>,
     <<72441, 72703>>, <<72713, 72713>>, <<72759, 72759>>, <<72774, 72783>>,
     <<72813, 72815>>, <<72848, 72849>>, <<72872, 72872>>, <<72887, 72959>>,
     <<72967, 72967>>, <<72970, 72970>>, <<73015, 73017>>, <<73019, 73019>>,
     <<73022, 73022>>, <<73032, 73039>>, <<73050, 73055>>, <<73062, 73062>>,
     <<73065, 73065>>, <<73103, 73103>>, <<73106, 73106>>, <<73113, 73119>>,
     <<73130, 73439>>, <<73465, 73647>>, <<73649, 73663>>, <<73714, 73726>>,
     <<74650, 74751>>, <<74863, 74863>>, <<74869, 74879>>, <<75076, 77711>>,
     <<77811, 77823>>, <<78895, 82943>>, <<83527, 92159>>, <<92729, 92735>>,
     <<92767, 92767>>, <<92778, 92781>>, <<92863, 92863>>, <<92874, 92879>>,
     <<92910, 92911>>, <<92918, 92927>>, <<92998, 93007>>, <<93018, 93018>>,
     <<93026, 93026>>, <<93048, 93052>>, <<93072, 93759>>, <<93851, 93951>>,
     <<94027, 94030>>, <<94088, 94094>>, <<94112, 94175>>, <<94181, 94191>>,
     <<94194, 94207>>, <<100344, 100351>>, <<101590, 101631>>,
     <<101641, 110575>>, <<110580, 110580>>, <<110588, 110588>>,
     <<110591, 110591>>, <<110883, 110927>>, <<110931, 110947>>,
     <<110952, 110959>>, <<111356, 113663>>, <<113771, 113775>>,
     <<113789, 113791>>, <<113801, 113807>>, <<113818, 113819>>,
     <<113824, 118527>>, <<118574, 118575>>, <<118599, 118607>>,
     <<118724, 118783>>, <<119030, 119039>>, <<119079, 119080>>,
     <<119155, 119162>>, <<119275, 119295>>, <<119366, 119519>>,
     <<119540, 119551>>, <<119639, 119647>>, <<119673, 119807>>,
     <<119893, 119893>>, <<119965, 119965>>, <<119968, 119969>>,
     <<119971, 119972>>, <<119975, 119976>>, <<119981, 119981>>,
     <<119994, 119994>>, <<119996, 119996>>, <<120004, 120004>>,
     <<120070, 120070>>, <<120075, 120076>>, <<120085, 120085>>,
     <<120093, 120093>>, <<120122, 120122>>, <<120127, 120127>>,
     <<120133, 120133>>, <<120135, 120137>>, <<120145, 120145>>,
     <<120486, 120487>>, <<120780, 120781>>, <<121484, 121498>>,
     <<121504, 121504>>, <<121520, 122623>>, <<122655, 122879>>,
     <<122887, 122887>>, <<122905, 122906>>, <<122914, 122914>>,
     <<122917, 122917>>, <<122923, 123135>>, <<123181, 123183>>,
     <<123198, 123199>>, <<123210, 123213>>, <<123216, 123535>>,
     <<123567, 123583>>, <<123642, 123646>>, <<123648, 124895>>,
     <<124903, 124903>>, <<124908, 124908>>, <<124911, 124911>>,
     <<124927, 124927>>, <<125125, 125126>>, <<125143, 125183>>,
     <<125260, 125263>>, <<125274, 125277>>, <<125280, 126064>>,
     <<126133, 126208>>, <<126270, 126463>>, <<126468, 126468>>,
     <<126496, 126496>>, <<126499, 126499>>, <<126501, 126502>>,
     <<126504, 126504>>, <<126515, 126515>>, <<126520, 126520>>,
     <<126522, 126522>>, <<126524, 126529>>, <<126531, 126534>>,
     <<126536, 126536>>, <<126538, 126538>>, <<126540, 126540>>,
     <<126544, 126544>>, <<126547, 126547>>, <<126549, 126550>>,
     <<126552, 126552>>, <<126554, 126554>>, <<126556, 126556>>,
     <<126558, 126558>>, <<126560, 126560>>, <<126563, 126563>>,
     <<126565, 126566>>, <<126571, 126571>>, <<126579, 126579>>,
     <<126584, 126584>>, <<126589, 126589>>, <<126591, 126591>>,
     <<126602, 126602>>, <<126620, 126624>>, <<126628, 126628>>,
     <<126634, 126634>>, <<126652, 126703>>, <<126706, 126975>>,
     <<127020, 127023>>, <<127124, 127135>>, <<127151, 127152>>,
     <<127168, 127168>>, <<127184, 127184>>, <<127222, 127231>>,
     <<127406, 127461>>, <<127491, 127503>>, <<127548, 127551>>,
     <<127561, 127567>>, <<127570, 127583>>, <<127590, 127743>>,
     <<128728, 128732>>, <<128749, 128751>>, <<128765, 128767>>,
     <<128884, 128895>>, <<128985, 128991>>, <<129004, 129007>>,
     <<129009, 129023>>, <<129036, 129039>>, <<129096, 129103>>,
     <<129114, 129119>>, <<129160, 129167>>, <<129198, 129199>>,
     <<129202, 129279>>, <<129620, 129631>>, <<129646, 129647>>,
     <<129653, 129655>>, <<129661, 129663>>, <<129671, 129679>>,
     <<129709, 129711>>, <<129723, 129727>>, <<129734, 129743>>,
     <<129754, 129759>>, <<129768, 129775>>, <<129783, 129791>>,
     <<129939, 129939>>, <<129995, 130031>>, <<130042, 131071>>,
     <<173792, 173823>>, <<177977, 177983>>, <<178206, 178207>>,
     <<183970, 183983>>, <<191457, 194559>>, <<195102, 196607>>,
     <<201547, 917759>>, <<918000, 1114111>>}

IsPrintable(c) ==
    LET n == Ord(c) IN ~\E r \in UnprintableRanges : r[1] <= n /\ n <= r[2]

\* What repr writes for the unprintable chr(n).
EscapeSeq(n) ==
    IF n = 9 THEN <<"\\", "t">>
    ELSE IF n = 10 THEN <<"\\", "n">>
    ELSE IF n = 13 THEN <<"\\", "r">>
    ELSE IF n < 256 THEN <<"\\", "x">> \o HexSeq(n, 2)
    ELSE IF n < 65536 THEN <<"\\", "u">> \o HexSeq(n, 4)
    ELSE <<"\\", "U">> \o HexSeq(n, 8)

RECURSIVE Escaped(_, _)
Escaped(s, quote) ==
    IF s = <<>> THEN <<>>
    ELSE LET c == Head(s)
             one == IF c = "\\" THEN <<"\\", "\\">>
                    ELSE IF c = quote THEN <<"\\", quote>>
                    ELSE IF ~IsPrintable(c) THEN EscapeSeq(Ord(c))
                    ELSE <<c>>
         IN one \o Escaped(Tail(s), quote)

\* A repr that quotes without escaping.
PyReprUnescaped(s) == <<"'">> \o s \o <<"'">>

\* repr(s)
PyRepr(s) == <<QuoteOf(s)>> \o Escaped(s, QuoteOf(s)) \o <<QuoteOf(s)>>

RECURSIVE ReprItems(_)
ReprItems(items) ==
    IF items = <<>> THEN <<>>
    ELSE IF Len(items) = 1 THEN PyRepr(items[1])
    ELSE PyRepr(items[1]) \o <<",", " ">> \o ReprItems(Tail(items))

\* str(questions): "['1. a', \"2. it's\"]"
PyStr(items) == <<"[">> \o ReprItems(items) \o <<"]">>

\* eval of a list display of string literals: the literals are plain (no
\* prefix but u, no \N{name} escape), in single, double or triple quotes; white
\* space, line ends, indentation, comments, a trailing comma and literals side
\* by side are read as Python's tokenizer reads them.  The result is
\* [ok |-> TRUE, val |-> the list], or [ok |-> FALSE, val |-> <<>>] when eval
\* raises; a text that is no such display (no text that line 160 writes)
\* counts as one on which eval raises.
EvalError == [ok |-> FALSE, val |-> <<>>]

NoLiteral(i) == [ok |-> FALSE, val |-> <<>>, next |-> i]

\* \\ \' \" \a \b \f \n \r \t \v
SimpleEscape ==
    [e \in {"\\", "'", "\"", "a", "b", "f", "n", "r", "t", "v"} |->
        IF e = "a" THEN Chr(7)
        ELSE IF e = "b" THEN Chr(8)
        ELSE IF e = "f" THEN Chr(12)
        ELSE IF e = "n" THEN Chr(10)
        ELSE IF e = "r" THEN Chr(13)
        ELSE IF e = "t" THEN Chr(9)
        ELSE IF e = "v" THEN Chr(11)
        ELSE e]

\* The value of the n hexadecimal digits at t[i], or -1 when they are not there.
RECURSIVE HexRun(_, _, _, _)
HexRun(t, i, n, acc) ==
    IF n = 0 THEN acc
    ELSE IF i > Len(t) \/ t[i] \notin HexDigits THEN -1
    ELSE HexRun(t, i + 1, n - 1, acc * 16 + HexValue(t[i]))

IsOctal(c) == c \in {"0", "1", "2", "3", "4", "5", "6", "7"}

\* The number of octal digits at t[i], three at most.
OctalLen(t, i) ==
    IF i + 1 > Len(t) \/ ~IsOctal(t[i + 1]) THEN 1
    ELSE IF i + 2 > Len(t) \/ ~IsOctal(t[i + 2]) THEN 2
    ELSE 3

EscapeWidth(e) == IF e = "x" THEN 2 ELSE IF e = "u" THEN 4 ELSE 8

\* t[i], t[i + 1] and t[i + 2] are the quote.
ClosesLong(t, i, quote) ==
    i + 2 <= Len(t) /\ t[i] = quote /\ t[i + 1] = quote /\ t[i + 2] = quote

\* The width of the line end at t[i], 0 when there is none: the tokenizer reads
\* "\r\n" and "\r" as "\n".
EolLen(t, i) ==
    IF i > Len(t) THEN 0
    ELSE IF t[i] = NL THEN 1
    ELSE IF t[i] = CR THEN (IF i + 1 <= Len(t) /\ t[i + 1] = NL THEN 2 ELSE 1)
    ELSE 0

\* The literal opened before t[i] with quote (long: with three of them); acc
\* is what was read of it, next the place after its end.
RECURSIVE EvalLiteral(_, _, _, _, _)
EvalLiteral(t, i, quote, acc, long) ==
    IF i > Len(t) THEN NoLiteral(i)
    ELSE IF long /\ ClosesLong(t, i, quote)
         THEN [ok |-> TRUE, val |-> acc, next |-> i + 3]
    ELSE IF ~long /\ t[i] = quote THEN [ok |-> TRUE, val |-> acc, next |-> i + 1]
    ELSE IF EolLen(t, i) > 0
         THEN IF long THEN EvalLiteral(t, i + EolLen(t, i), quote, Append(acc, NL), long)
              ELSE NoLiteral(i)
    ELSE IF t[i] # "\\" THEN EvalLiteral(t, i + 1, quote, Append(acc, t[i]), long)
    ELSE IF i + 1 > Len(t) THEN NoLiteral(i)
    ELSE LET e == t[i + 1] IN
         IF e \in DOMAIN SimpleEscape
         THEN EvalLiteral(t, i + 2, quote, Append(acc, SimpleEscape[e]), long)
         ELSE IF EolLen(t, i + 1) > 0
              THEN EvalLiteral(t, i + 1 + EolLen(t, i + 1), quote, acc, long)
         ELSE IF IsOctal(e)
              THEN LET n == OctalLen(t, i + 1)
                       v == IF n = 1 THEN HexValue(e)
                            ELSE IF n = 2 THEN HexValue(e) * 8 + HexValue(t[i + 2])
                            ELSE HexValue(e) * 64 + HexValue(t[i + 2]) * 8
                                 + HexValue(t[i + 3])
                   IN EvalLiteral(t, i + 1 + n, quote, Append(acc, Chr(v)), long)
         ELSE IF e \in {"x", "u", "U"}
              THEN LET n == EscapeWidth(e)
                       v == HexRun(t, i + 2, n, 0)
                   IN IF v = -1 \/ v > 1114111 THEN NoLiteral(i)
                      ELSE EvalLiteral(t, i + 2 + n, quote, Append(acc, Chr(v)), long)
         ELSE IF e = "N" THEN NoLiteral(i)
         ELSE EvalLiteral(t, i + 2, quote, acc \o <<"\\", e>>, long)

\* The literal that opens at t[i - 1] with one quote; i is the next character.
EvalString(t, i, quote, acc) == EvalLiteral(t, i, quote, acc, FALSE)

\* Inside the brackets: the place of the first character from t[i] on that is
\* neither white space, nor a line end, nor inside a comment, nor a backslash
\* before a line end.
RECURSIVE SkipSpace(_, _, _)
SkipSpace(t, i, comment) ==
    IF i > Len(t) THEN i
    ELSE IF comment THEN SkipSpace(t, i + 1, EolLen(t, i) = 0)
    ELSE IF t[i] = "#" THEN SkipSpace(t, i + 1, TRUE)
    ELSE IF t[i] \in {" ", "\t", "\f", NL, CR} THEN SkipSpace(t, i + 1, FALSE)
    ELSE IF t[i] = "\\" /\ EolLen(t, i + 1) > 0
         THEN SkipSpace(t, i + 1 + EolLen(t, i + 1), FALSE)
    ELSE i

\* The place of the line end at or after t[i], or of the end of the text.
RECURSIVE LineEnd(_, _)
LineEnd(t, i) == IF i > Len(t) \/ EolLen(t, i) > 0 THEN i ELSE LineEnd(t, i + 1)

\* Outside the brackets: the place of the first token from t[i] on, or of the
\* end of the text.  bol: t[i] is in the white space that opens a line; col: that
\* white space reaches past column 0 (a form feed goes back to it); cont: it did
\* where a backslash continued the line.  A line of white space and a comment
\* counts for nothing; any other line, and the end of the text, must be at
\* column 0; a backslash must stand before a line end that is not the last.
RECURSIVE TopSkip(_, _, _, _, _)
TopSkip(t, i, bol, col, cont) ==
    IF i > Len(t) THEN [ok |-> ~(bol /\ (col \/ cont)), next |-> i]
    ELSE IF EolLen(t, i) > 0 THEN TopSkip(t, i + EolLen(t, i), TRUE, FALSE, FALSE)
    ELSE IF t[i] = "#" THEN TopSkip(t, LineEnd(t, i), FALSE, FALSE, FALSE)
    ELSE IF t[i] \in {" ", "\t"} THEN TopSkip(t, i + 1, bol, bol, cont)
    ELSE IF t[i] = "\f" THEN TopSkip(t, i + 1, bol, FALSE, cont)
    ELSE IF t[i] = "\\"
         THEN LET n == EolLen(t, i + 1) IN
              IF n = 0 \/ i + 1 + n > Len(t) THEN [ok |-> FALSE, next |-> i]
              ELSE TopSkip(t, i + 1 + n, bol, col, cont \/ col)
    ELSE [ok |-> ~(bol /\ (col \/ cont)), next |-> i]

\* One item from t[i] on: literals side by side make one string.
RECURSIVE EvalItem(_, _, _, _)
EvalItem(t, i, acc, any) ==
    LET h == SkipSpace(t, i, FALSE)
        prefixed == /\ h + 1 <= Len(t)
                    /\ t[h] \in {"u", "U"}
                    /\ t[h + 1] \in {"'", "\""}
        j == IF prefixed THEN h + 1 ELSE h
    IN IF j > Len(t) \/ t[j] \notin {"'", "\""}
       THEN [ok |-> any, val |-> acc, next |-> j]
       ELSE LET long == ClosesLong(t, j, t[j])
                lit == EvalLiteral(t, IF long THEN j + 3 ELSE j + 1, t[j], <<>>, long)
            IN IF lit.ok THEN EvalItem(t, lit.next, acc \o lit.val, TRUE)
               ELSE NoLiteral(j)

\* Nothing but white space, comments and empty lines follows the "]" at t[j].
EndsAt(t, j) ==
    LET rest == TopSkip(t, j + 1, FALSE, FALSE, FALSE) IN rest.ok /\ rest.next > Len(t)

\* The items from t[i] on, after "[" or ",".
RECURSIVE EvalItems(_, _, _)
EvalItems(t, i, acc) ==
    LET item == EvalItem(t, i, <<>>, FALSE)
        j == item.next
    IN IF ~item.ok \/ j > Len(t) THEN EvalError
       ELSE IF t[j] = "]"
            THEN IF EndsAt(t, j) THEN [ok |-> TRUE, val |-> Append(acc, item.val)]
                 ELSE EvalError
       ELSE IF t[j] = ","
            THEN LET k == SkipSpace(t, j + 1, FALSE) IN
                 IF k <= Len(t) /\ t[k] = "]"
                 THEN IF EndsAt(t, k) THEN [ok |-> TRUE, val |-> Append(acc, item.val)]
                      ELSE EvalError
                 ELSE EvalItems(t, k, Append(acc, item.val))
       ELSE EvalError

\* eval drops the spaces and tabs that open the text.
RECURSIVE SkipBlank(_, _)
SkipBlank(t, i) ==
    IF i <= Len(t) /\ t[i] \in {" ", "\t"} THEN SkipBlank(t, i + 1) ELSE i

PyEval(t) ==
    LET open == TopSkip(t, SkipBlank(t, 1), TRUE, FALSE, FALSE)
        i == open.next
        j == SkipSpace(t, i + 1, FALSE)
    IN IF NUL \in Chars(t) \/ ~open.ok \/ i > Len(t) \/ t[i] # "[" \/ j > Len(t)
       THEN EvalError
       ELSE IF t[j] = "]"
            THEN IF EndsAt(t, j) THEN [ok |-> TRUE, val |-> <<>>] ELSE EvalError
       ELSE EvalItems(t, j, <<>>)

(***************************************************************************)
(* Feedback text of analyze_responses, as a sequence of lexemes             *)
(***************************************************************************)
Tok(kind, key, val) == [kind |-> kind, key |-> key, val |-> val]

\* A fence marker line: three backticks, or three backticks and a language tag.
Fence == Tok("fence", "", "fence")

FenceJson == Tok("fence", "", "fence json")

Newline == Tok("nl", "", NL)

LBrace == Tok("lbrace", "", "{")

RBrace == Tok("rbrace", "", "}")

\* A JSON text that is a bare number.
Scalar == Tok("scalar", "", "5")

\* One member of an object, "key": value, with the comma that follows it if any.
Member(key, val) == Tok("member", key, val)

ScoreKeys == {"technical_score", "communication_score", "overall_score"}

\* for key in ['strengths', 'improvements', 'recommendations']
ListKeys == <<"strengths", "improvements", "recommendations">>

\* The JSON values of the model: two integers, a string, two lists of strings.
\* JsonType is what isinstance sees; "strA" in a list of its own is "listA".
JsonType(v) ==
    CASE v \in {"int7", "int11"} -> "int"
      [] v \in {"strA"} -> "str"
      [] v \in {"listA", "listAB"} -> "list"
      [] OTHER -> "none"

\* [feedback_json[key]]
ListOfOne(v) == IF v = "strA" THEN "listA" ELSE v

\* feedback.startswith(three backticks)
StartsWithFence(text) == text # <<>> /\ text[1].kind = "fence"

HasNewline(text) == \E i \in 1..Len(text) : text[i].kind = "nl"

FirstNewline(text) ==
    CHOOSE i \in 1..Len(text) :
        text[i].kind = "nl" /\ \A j \in 1..(i - 1) : text[j].kind # "nl"

LastNewline(text) ==
    CHOOSE i \in 1..Len(text) :
        text[i].kind = "nl" /\ \A j \in (i + 1)..Len(text) : text[j].kind # "nl"

\* feedback.split("\n", 1)[1]: IndexError when the text has no line break
AfterFirstLine(text) == SubSeq(text, FirstNewline(text) + 1, Len(text))

\* feedback.rsplit("\n", 1)[0]: the whole text when it has no line break
BeforeLastLine(text) ==
    IF HasNewline(text) THEN SubSeq(text, 1, LastNewline(text) - 1) ELSE text

\* A fence stripping that drops the first line only.
StripFenceFirstOnly(text) ==
    IF StartsWithFence(text)
    THEN IF HasNewline(text)
         THEN [ok |-> TRUE, val |-> AfterFirstLine(text)]
         ELSE [ok |-> FALSE, val |-> <<>>]
    ELSE [ok |-> TRUE, val |-> text]

\* Lines 206-208.  [ok |-> FALSE] is the IndexError of split(...)[1].
StripFence(text) ==
    IF StartsWithFence(text)
    THEN IF HasNewline(text)
         THEN [ok |-> TRUE, val |-> BeforeLastLine(AfterFirstLine(text))]
         ELSE [ok |-> FALSE, val |-> <<>>]
    ELSE [ok |-> TRUE, val |-> text]

IsNotNewline(t) == t.kind # "nl"

\* json.loads: white space between lexemes is skipped; an object is "{", members,
\* "}" and a later member replaces an earlier one with the same key; a bare
\* number is a number; anything else raises.  A dict is the set of its
\* <<key, value>> pairs.
JsonLoads(text) ==
    LET lex == SelectSeq(text, IsNotNewline)
        n == Len(lex)
    IN IF n = 1 /\ lex[1].kind = "scalar"
       THEN [ok |-> TRUE, isdict |-> FALSE, dict |-> {}]
       ELSE IF /\ n >= 2
               /\ lex[1].kind = "lbrace"
               /\ lex[n].kind = "rbrace"
               /\ \A i \in 2..(n - 1) : lex[i].kind = "member"
       THEN [ok |-> TRUE, isdict |-> TRUE,
             dict |-> {<<lex[i].key, lex[i].val>> : i \in
                         {j \in 2..(n - 1) :
                            \A k \in (j + 1)..(n - 1) : lex[k].key # lex[j].key}}]
       ELSE [ok |-> FALSE, isdict |-> FALSE, dict |-> {}]

HasKey(dict, key) == \E p \in dict : p[1] = key

Get(dict, key) == (CHOOSE p \in dict : p[1] = key)[2]

\* Lines 214-216: KeyError when a list key is missing, TypeError when the JSON
\* value is not an object; a str under a list key becomes a list of one.
Normalize(parsed) ==
    IF ~parsed.isdict \/ \E i \in 1..Len(ListKeys) : ~HasKey(parsed.dict, ListKeys[i])
    THEN [ok |-> FALSE, dict |-> {}]
    ELSE [ok |-> TRUE,
          dict |-> {<<p[1], IF \E i \in 1..Len(ListKeys) : ListKeys[i] = p[1]
                            THEN ListOfOne(p[2]) ELSE p[2]>> : p \in parsed.dict}]

\* Lines 204-222: the feedback returned for a model reply, or the 500.
AnalyzeText(text) ==
    LET stripped == StripFence(text)
        parsed == JsonLoads(stripped.val)
        normal == Normalize(parsed)
    IN IF stripped.ok /\ parsed.ok /\ normal.ok
       THEN [status |-> 200, feedback |-> normal.dict]
       ELSE [status |-> 500, feedback |-> {}]

(***************************************************************************)
(* Program constants and the bounds of the model                            *)
(***************************************************************************)
\* @limiter.limit("5/minute")
RateLimit == 5

RateWindow == 60

\* A time to live of a day.
CacheTTLDay == 24 * 3600

\* redis_client.setex(cache_key, 3600, ...)
CacheTTL == 3600

\* uvicorn.run(app, ...): one process, one event loop
MainWorkers == 1

\* Instances of the service (runs of line 232) that are configured to one Redis.
Instances == 2

\* Clock advances while these instances run.
InstanceTicks == 1

\* Clock advances in one behaviour.
MaxTicks == 2

\* Requests counted in one limiter window before the client stops sending.
MaxHits == 6

(***************************************************************************)
(* Inputs                                                                   *)
(***************************************************************************)
Clients == {"10.0.0.1", "10.0.0.2"}

GenEp == "generate_questions"

AnaEp == "analyze_responses"

Endpoints == {GenEp, AnaEp}

\* ("ab", "c") and ("a", "bc") concatenate to the same text.
JobTitles == {<<"a", "b">>, <<"a">>}

JobDescs == {<<"c">>, <<"b", "c">>}

Q1 == <<"1", ".", " ", "a">>

Q1z == <<"1", ".", " ", "z">>

Q2 == <<"2", ".", " ", "'">>

Q3 == <<"3", ".", " ", "'", "\"">>

\* "4. " and a backslash, a tab, an em space, a no-break space, a zero width
\* joiner and "z"
Q4 == <<"4", ".", " ", "\\", "\t", Chr(8195), Chr(160), Chr(8205), "z">>

Q5 == <<"5", ".", " ", "e">>

\* Q5 between white space of several kinds: it strips to Q5.
Padded == <<" ", Chr(160), Chr(8195)>> \o Q5 \o <<"\f", CR>>

\* A line that opens with a superscript two, and one with an Arabic-Indic three.
SuperDigit == <<Chr(178), ".", " ", "f">>

WideDigit == <<Chr(1635), ".", " ", "g">>

\* "5) e. g": a digit, then ". " inside the first ten characters
Paren == <<"5", ")", " ", "e", ".", " ", "g">>

\* "10. h"
TwoDigit == <<"1", "0", ".", " ", "h">>

\* "3aaaaaaa. b": the "." is the 9th character, ". " is inside s[:10]
Near == <<"3", "a", "a", "a", "a", "a", "a", "a", ".", " ", "b">>

\* "3aaaaaaaa. b": the "." is the 10th character, ". " is not inside s[:10]
Far == <<"3", "a", "a", "a", "a", "a", "a", "a", "a", ".", " ", "b">>

\* "1. " strips to "1."
BareNumber == <<"1", ".", " ">>

Intro == <<"H", "e", "r", "e", ":">>

\* Replies of the completion model to the question prompt.
\* GoodReply ends its lines with a carriage return and a line feed.
GoodReply ==
    JoinLines(<<Intro \o <<CR>>, <<CR>>, Q1 \o <<CR>>, Q2 \o <<CR>>, Q3 \o <<CR>>,
                Q4 \o <<CR>>, Padded>>)

OtherReply == JoinLines(<<Q1z, Q2, Q3, Q4, Q5>>)

ShortReply == JoinLines(<<Q1, Q2, Q3, Q4, Intro, Far, BareNumber>>)

LongReply == JoinLines(<<Q1, Q2, Q3, Q4, SuperDigit, WideDigit>>)

LooseReply == JoinLines(<<Q1, Q2, Near, TwoDigit, Paren>>)

GenReplies == {GoodReply, OtherReply, ShortReply, LongReply, LooseReply}

\* The answers of an analysis request: List[Dict[str, str]] asks for no key, so
\* an entry is taken for the set of its keys.
Complete == {"question", "answer"}

AnswerLists ==
    {<<>>, <<Complete>>, <<Complete, Complete \cup {"note"}>>, <<{"answer"}>>,
     <<{"question"}>>, <<{}>>, <<Complete, {"answer"}>>}

\* Replies of the completion model to the analysis prompt, without fences.
Scores == <<Member("technical_score", "int7"), Member("communication_score", "int7"),
            Member("overall_score", "int7")>>

Lists == <<Member("strengths", "listAB"), Member("improvements", "listA"),
           Member("recommendations", "listA")>>

FullObject == <<LBrace>> \o Scores \o Lists \o <<RBrace>>

MultiLineObject == <<LBrace, Newline>> \o Scores \o <<Newline>> \o Lists \o <<Newline, RBrace>>

StringObject ==
    <<LBrace>> \o Scores \o
    <<Member("strengths", "strA"), Member("improvements", "listA"),
      Member("recommendations", "strA"), RBrace>>

NoScoresObject == <<LBrace>> \o Lists \o <<RBrace>>

BigScoreObject ==
    <<LBrace, Member("technical_score", "int11"), Member("communication_score", "strA"),
      Member("overall_score", "int7")>> \o Lists \o <<RBrace>>

NumberListObject ==
    <<LBrace>> \o Scores \o
    <<Member("strengths", "int7"), Member("improvements", "listA"),
      Member("recommendations", "listA"), RBrace>>

MissingListObject ==
    <<LBrace>> \o Scores \o
    <<Member("strengths", "listAB"), Member("improvements", "listA"), RBrace>>

RepeatedKeyObject ==
    <<LBrace>> \o Scores \o Lists \o <<Member("strengths", "strA"), RBrace>>

Unclosed == <<LBrace>> \o Scores \o Lists

TrailingNewline == FullObject \o <<Newline>>

\* Longest reply made of arbitrary lexemes.
MaxBody == 2

Lexemes == {Newline, Fence, LBrace, RBrace, Scalar}

SmallBodies == UNION {[1..n -> Lexemes] : n \in 0..MaxBody}

AnaBodies ==
    SmallBodies \cup
    {FullObject, MultiLineObject, StringObject, NoScoresObject, BigScoreObject,
     NumberListObject, MissingListObject, RepeatedKeyObject, Unclosed,
     TrailingNewline}

\* How the model wraps its JSON: not at all, or between two fence lines.
Wraps == {"none", "fence", "fence json"}

Wrapped(body, wrap) ==
    IF wrap = "none" THEN body
    ELSE <<Tok("fence", "", wrap), Newline>> \o body \o <<Newline, Fence>>

(***************************************************************************)
(* State                                                                    *)
(***************************************************************************)
VARIABLES
    seed,       \* per process: the hash seed of its interpreter
    nworkers,   \* number of server processes
    now,        \* the clock, in seconds
    ticks,      \* clock advances so far
    limiter,    \* per process: the limiter's in-memory windows, by <<client, endpoint>>
    redis,      \* the cache: key -> value and expiry time
    req,        \* per process: the request it is handling, or last handled
    arrivals,   \* history: per process and limiter key, arrival times of the last 60 s
    freshAt,    \* history: the last arrival that followed 60 s without arrivals
    audit,      \* history: per cache key, the last SETEX of the last hour
    lastOk      \* history: per job description, its last successful question set

vars == <<seed, nworkers, now, ticks, limiter, redis, req, arrivals, freshAt, audit, lastOk>>

Workers == 1..nworkers

LimiterKeys == Clients \X Endpoints

\* The job descriptions sent to one process: ("ab", "c"), ("a", "bc"), ("a", "c").
Pairs == (JobTitles \X JobDescs) \ {<<<<"a", "b">>, <<"b", "c">>>>}

\* The job descriptions sent to several instances: ("a", "c") and the one whose
\* title and description are empty (title: str, description: str).
InstancePairs == {<<<<"a">>, <<"c">>>>, <<<<>>, <<>>>>}

\* cache_key = f"questions:{hash(job_desc.title + job_desc.description)}".
\* hash() of a str depends on the hash seed of the interpreter, which is
\* PYTHONHASHSEED when the environment sets it and is drawn at start otherwise.
\* The hash of the empty text is 0 under every seed.  For the other texts
\* hash() is taken to be free of collisions: under one seed the hash of a text
\* is the text, and texts hashed under different seeds differ.
Seeds == {"seed 0", "seed 1"}

cache_key(s, title, desc) ==
    IF title \o desc = <<>> THEN <<"questions:", "0">>
    ELSE <<"questions:", s>> \o (title \o desc)

\* The keys that processes with these hash seeds use.
CacheKeys(seeds, pairs) == {cache_key(s, p[1], p[2]) : s \in seeds, p \in pairs}

\* The job descriptions whose title and description concatenate to "abc".
SameKeyPairs == {p \in Pairs : p[1] \o p[2] = <<"a", "b", "c">>}

(***************************************************************************)
(* The limiter: slowapi's default fixed-window strategy on memory storage   *)
(***************************************************************************)
NoWindow == [count |-> 0, expiry |-> 0]

\* storage.get: a window whose expiry has come counts nothing
WindowCount(store, key, t) == IF store[key].expiry <= t THEN 0 ELSE store[key].count

\* storage.incr: the hit that finds no open window opens one for RateWindow seconds
LimiterHit(store, key, t) ==
    [store EXCEPT ![key] =
        [count |-> WindowCount(store, key, t) + 1,
         expiry |-> IF WindowCount(store, key, t) = 0 THEN t + RateWindow ELSE @.expiry]]

\* A comparison that admits one request more.
WithinLimitOffByOne(count) == count <= RateLimit + 1

\* hit: incr(...) <= 5
WithinLimit(count) == count <= RateLimit

(***************************************************************************)
(* The cache: GET and SETEX of Redis                                        *)
(***************************************************************************)
NoEntry == [val |-> <<>>, exp |-> 0]

\* redis_client.get(cache_key): None (here <<>>) when absent or expired
RedisGet(store, key, t) == IF store[key].exp > t THEN store[key].val ELSE <<>>

\* A write that leaves a live key alone: the first write wins.
RedisSetNx(store, key, ttl, val, t) ==
    IF store[key].exp > t THEN store
    ELSE [store EXCEPT ![key] = [val |-> val, exp |-> t + ttl]]

\* redis_client.setex(cache_key, ttl, val): the last write wins
RedisSetex(store, key, ttl, val, t) ==
    [store EXCEPT ![key] = [val |-> val, exp |-> t + ttl]]

(***************************************************************************)
(* Requests                                                                 *)
(***************************************************************************)
NoAudit == [by |-> <<>>, at |-> -1, qs |-> <<>>, old |-> FALSE]

NoneOk == [qs |-> <<>>, until |-> 0]

Idle ==
    [ep |-> "", client |-> "", title |-> <<>>, desc |-> <<>>, pc |-> "idle",
     status |-> 0, questions |-> <<>>, feedback |-> {},
     hit |-> FALSE, text |-> <<>>, reply |-> <<>>,
     \* history of the request
     at |-> 0, effects |-> <<>>, earlier |-> 0, fresh |-> FALSE,
     readAt |-> -1, wroteAt |-> -1, src |-> <<>>, held |-> <<>>, stale |-> FALSE,
     prev |-> <<>>,
     overwrote |-> <<>>, body |-> <<>>, wrap |-> "none", answers |-> <<>>]

\* The one process of uvicorn.run(app, ...), line 232.  Which hash seed it has
\* makes no difference to what one process does.
Init ==
    /\ seed = [w \in 1..MainWorkers |-> "seed 0"]
    /\ nworkers = MainWorkers
    /\ now = 0
    /\ ticks = 0
    /\ limiter = [w \in 1..MainWorkers |-> [k \in LimiterKeys |-> NoWindow]]
    /\ redis = [k \in CacheKeys({"seed 0"}, Pairs) |-> NoEntry]
    /\ req = [w \in 1..MainWorkers |-> Idle]
    /\ arrivals = [w \in 1..MainWorkers |-> [k \in LimiterKeys |-> <<>>]]
    /\ freshAt = [w \in 1..MainWorkers |-> [k \in LimiterKeys |-> -1]]
    /\ audit = [k \in CacheKeys({"seed 0"}, Pairs) |-> NoAudit]
    /\ lastOk = [p \in Pairs |-> NoneOk]

\* The wrapper of @limiter.limit runs before the handler's body: a request over
\* the limit is answered 429 and the body never runs.
Arrive(w, c, ep, title, desc, answers) ==
    /\ req[w].pc \in {"idle", "done"}
    /\ LET key == <<c, ep>>
           store == LimiterHit(limiter[w], key, now)
           ok == WithinLimit(store[key].count)
           recent == arrivals[w][key]
           fresh == IF recent = <<>> THEN now ELSE freshAt[w][key]
       IN /\ WindowCount(limiter[w], key, now) < MaxHits
          /\ limiter' = [limiter EXCEPT ![w] = store]
          /\ arrivals' = [arrivals EXCEPT ![w][key] = Append(@, now)]
          /\ freshAt' = [freshAt EXCEPT ![w][key] = fresh]
          /\ req' = [req EXCEPT ![w] =
                [Idle EXCEPT !.ep = ep, !.client = c, !.title = title, !.desc = desc,
                             !.answers = answers,
                             !.at = now, !.effects = <<"limit">>,
                             !.earlier = Len(recent), !.fresh = (fresh # -1),
                             !.pc = IF ~ok THEN "done"
                                    ELSE IF ep = GenEp THEN "cache_get" ELSE "call_model",
                             !.status = IF ok THEN 0 ELSE 429]]
    /\ UNCHANGED <<seed, nworkers, now, ticks, redis, audit, lastOk>>

\* Lines 122-127: the cache read, and the return of eval(cached) on a hit.
CacheGet(w) ==
    /\ req[w].pc = "cache_get"
    /\ LET r == req[w]
           key == cache_key(seed[w], r.title, r.desc)
           cached == RedisGet(redis, key, now)
           hit == cached # <<>>
           val == PyEval(cached)
       IN /\ req' = [req EXCEPT ![w] =
                [r EXCEPT !.effects = Append(@, "read"), !.hit = hit,
                          !.readAt = now, !.wroteAt = audit[key].at,
                          !.src = IF hit THEN audit[key].by ELSE <<>>,
                          !.held = IF hit THEN audit[key].qs ELSE <<>>,
                          !.stale = audit[key].old,
                          !.prev = lastOk[<<r.title, r.desc>>].qs,
                          !.pc = IF hit THEN "done" ELSE "call_model",
                          !.status = IF ~hit THEN 0 ELSE IF val.ok THEN 200 ELSE 500,
                          !.questions = IF hit /\ val.ok THEN val.val ELSE <<>>]]
          /\ lastOk' = IF hit /\ val.ok
                       THEN [lastOk EXCEPT ![<<r.title, r.desc>>] =
                                [qs |-> val.val, until |-> redis[key].exp]]
                       ELSE lastOk
    /\ UNCHANGED <<seed, nworkers, now, ticks, limiter, redis, arrivals, freshAt, audit>>

\* Line 124: redis_client.get raises (the server cannot be reached); lines
\* 164-167 answer 500.  Nothing is read and no completion is asked for.
CacheGetFails(w) ==
    /\ req[w].pc = "cache_get"
    /\ req' = [req EXCEPT ![w].effects = Append(@, "read"), ![w].status = 500,
                          ![w].pc = "done"]
    /\ UNCHANGED <<seed, nworkers, now, ticks, limiter, redis, arrivals, freshAt, audit, lastOk>>

\* Lines 141-146: the completion call returns a text.
CallModelForQuestions(w, out) ==
    /\ req[w].pc = "call_model"
    /\ req[w].ep = GenEp
    /\ req' = [req EXCEPT ![w].effects = Append(@, "model"), ![w].text = out,
                          ![w].pc = "extract"]
    /\ UNCHANGED <<seed, nworkers, now, ticks, limiter, redis, arrivals, freshAt, audit, lastOk>>

\* Line 179: resp["question"] and resp["answer"] are there for every entry.
MessagesBuilt(answers) == \A i \in 1..Len(answers) : Complete \subseteq answers[i]

\* Lines 174-191: an entry lacks "question" or "answer" and the f-string raises
\* KeyError; lines 224-227 answer 500.  No completion is asked for.
BuildMessagesFails(w) ==
    /\ req[w].pc = "call_model"
    /\ req[w].ep = AnaEp
    /\ ~MessagesBuilt(req[w].answers)
    /\ req' = [req EXCEPT ![w].status = 500, ![w].pc = "done"]
    /\ UNCHANGED <<seed, nworkers, now, ticks, limiter, redis, arrivals, freshAt, audit, lastOk>>

\* Lines 174-201: the messages are built and the completion call returns a text.
CallModelForFeedback(w, body, wrap) ==
    /\ req[w].pc = "call_model"
    /\ req[w].ep = AnaEp
    /\ MessagesBuilt(req[w].answers)
    /\ req' = [req EXCEPT ![w].effects = Append(@, "model"),
                          ![w].reply = Wrapped(body, wrap),
                          ![w].body = body, ![w].wrap = wrap, ![w].pc = "parse"]
    /\ UNCHANGED <<seed, nworkers, now, ticks, limiter, redis, arrivals, freshAt, audit, lastOk>>

\* The completion call raises: lines 164-167 and 224-227 answer 500.
ModelFails(w) ==
    /\ req[w].pc = "call_model"
    /\ req[w].ep = AnaEp => MessagesBuilt(req[w].answers)
    /\ req' = [req EXCEPT ![w].effects = Append(@, "model"), ![w].status = 500,
                          ![w].pc = "done"]
    /\ UNCHANGED <<seed, nworkers, now, ticks, limiter, redis, arrivals, freshAt, audit, lastOk>>

\* A handler that caches what it extracted before it checks the count.
ExtractAndStoreUnchecked(w) ==
    /\ req[w].pc = "extract"
    /\ LET r == req[w]
           key == cache_key(seed[w], r.title, r.desc)
           questions == ExtractQuestions(r.text)
       IN /\ redis' = RedisSetex(redis, key, CacheTTL, PyStr(questions), now)
          /\ audit' = [audit EXCEPT ![key] =
                         [by |-> <<r.title, r.desc>>, at |-> now, qs |-> questions,
                          old |-> FALSE]]
          /\ IF CountAccepted(questions)
             THEN /\ lastOk' = [lastOk EXCEPT ![<<r.title, r.desc>>] =
                                  [qs |-> questions, until |-> redis'[key].exp]]
                  /\ req' = [req EXCEPT ![w] =
                        [r EXCEPT !.effects = Append(@, "write"),
                                  !.questions = questions,
                                  !.overwrote = RedisGet(redis, key, now),
                                  !.status = 200, !.pc = "done"]]
             ELSE /\ req' = [req EXCEPT ![w] =
                        [r EXCEPT !.questions = questions, !.status = 500,
                                  !.pc = "done"]]
                  /\ UNCHANGED lastOk
    /\ UNCHANGED <<seed, nworkers, now, ticks, limiter, arrivals, freshAt>>

\* Lines 148-162: extract, count, SETEX, return.
ExtractAndStore(w) ==
    /\ req[w].pc = "extract"
    /\ LET r == req[w]
           key == cache_key(seed[w], r.title, r.desc)
           questions == ExtractQuestions(r.text)
       IN IF CountAccepted(questions)
          THEN /\ redis' = RedisSetex(redis, key, CacheTTL, PyStr(questions), now)
               /\ audit' = [audit EXCEPT ![key] =
                              [by |-> <<r.title, r.desc>>, at |-> now, qs |-> questions,
                               old |-> FALSE]]
               /\ lastOk' = [lastOk EXCEPT ![<<r.title, r.desc>>] =
                               [qs |-> questions, until |-> redis'[key].exp]]
               /\ req' = [req EXCEPT ![w] =
                     [r EXCEPT !.effects = Append(@, "write"), !.questions = questions,
                               !.overwrote = RedisGet(redis, key, now),
                               !.status = 200, !.pc = "done"]]
          ELSE /\ req' = [req EXCEPT ![w] =
                     [r EXCEPT !.questions = questions, !.status = 500, !.pc = "done"]]
               /\ UNCHANGED <<redis, audit, lastOk>>
    /\ UNCHANGED <<seed, nworkers, now, ticks, limiter, arrivals, freshAt>>

\* Line 160: redis_client.setex raises; lines 164-167 answer 500.  The command
\* was lost on its way to the server (applied is FALSE), or the server stored
\* the entry and its reply was lost (applied is TRUE).
SetexFails(w, applied) ==
    /\ req[w].pc = "extract"
    /\ LET r == req[w]
           key == cache_key(seed[w], r.title, r.desc)
           questions == ExtractQuestions(r.text)
       IN /\ CountAccepted(questions)
          /\ req' = [req EXCEPT ![w] =
                [r EXCEPT !.effects = Append(@, "write"), !.questions = questions,
                          !.overwrote = IF applied THEN RedisGet(redis, key, now)
                                        ELSE <<>>,
                          !.status = 500, !.pc = "done"]]
          /\ IF applied
             THEN /\ redis' = RedisSetex(redis, key, CacheTTL, PyStr(questions), now)
                  /\ audit' = [audit EXCEPT ![key] =
                                 [by |-> <<r.title, r.desc>>, at |-> now,
                                  qs |-> questions, old |-> FALSE]]
             ELSE UNCHANGED <<redis, audit>>
    /\ UNCHANGED <<seed, nworkers, now, ticks, limiter, arrivals, freshAt, lastOk>>

\* Lines 204-222: strip the fence, parse, normalize, return.
ParseFeedback(w) ==
    /\ req[w].pc = "parse"
    /\ LET result == AnalyzeText(req[w].reply)
       IN req' = [req EXCEPT ![w].status = result.status,
                             ![w].feedback = result.feedback, ![w].pc = "done"]
    /\ UNCHANGED <<seed, nworkers, now, ticks, limiter, redis, arrivals, freshAt, audit, lastOk>>

RECURSIVE After(_, _)
After(times, t) ==
    IF times = <<>> THEN <<>>
    ELSE IF Head(times) > t THEN times ELSE After(Tail(times), t)

\* d seconds pass.  Redis drops the keys whose time to live has run out and the
\* limiter's storage drops the windows that have expired; the histories forget
\* what is older than the 60 seconds they cover, and of a SETEX that is an
\* hour old only that it happened.
Advance(d) ==
    /\ ticks < MaxTicks
    /\ ticks' = ticks + 1
    /\ now' = now + d
    /\ redis' = [k \in DOMAIN redis |-> IF redis[k].exp <= now' THEN NoEntry ELSE redis[k]]
    /\ limiter' = [w \in Workers |-> [k \in LimiterKeys |->
                      IF limiter[w][k].expiry <= now' THEN NoWindow ELSE limiter[w][k]]]
    /\ arrivals' = [w \in Workers |-> [k \in LimiterKeys |->
                      After(arrivals[w][k], now' - 60)]]
    /\ freshAt' = [w \in Workers |-> [k \in LimiterKeys |->
                      IF now' - freshAt[w][k] >= 60 THEN -1 ELSE freshAt[w][k]]]
    /\ audit' = [k \in DOMAIN audit |->
                      IF audit[k].at # -1 /\ now' - audit[k].at >= 3600
                      THEN [NoAudit EXCEPT !.old = TRUE] ELSE audit[k]]
    /\ lastOk' = [p \in DOMAIN lastOk |-> IF lastOk[p].until <= now' THEN NoneOk ELSE lastOk[p]]
    /\ UNCHANGED <<seed, nworkers, req>>

\* Every step of the service: both endpoints, every input.
Next ==
    \/ \E w \in Workers, c \in Clients, p \in Pairs :
          Arrive(w, c, GenEp, p[1], p[2], <<>>)
    \/ \E w \in Workers, c \in Clients, answers \in AnswerLists :
          Arrive(w, c, AnaEp, <<>>, <<>>, answers)
    \/ \E w \in Workers : BuildMessagesFails(w)
    \/ \E w \in Workers : CacheGet(w)
    \/ \E w \in Workers : CacheGetFails(w)
    \/ \E w \in Workers, out \in GenReplies : CallModelForQuestions(w, out)
    \/ \E w \in Workers, body \in AnaBodies, wrap \in Wraps :
          CallModelForFeedback(w, body, wrap)
    \/ \E w \in Workers : ModelFails(w)
    \/ \E w \in Workers : ExtractAndStore(w)
    \/ \E w \in Workers, applied \in BOOLEAN : SetexFails(w, applied)
    \/ \E w \in Workers : ParseFeedback(w)
    \/ \E d \in {1, 59, 3540} : Advance(d)

\* The service in the one process of uvicorn.run.
Spec == Init /\ [][Next]_vars

\* Question generation alone, for one client: the two job descriptions that
\* concatenate to one text and every reply to the question prompt; the clock's
\* steps reach the hour.
NextQuestions ==
    \/ \E w \in Workers, p \in SameKeyPairs :
          Arrive(w, "10.0.0.1", GenEp, p[1], p[2], <<>>)
    \/ \E w \in Workers : CacheGet(w)
    \/ \E w \in Workers : CacheGetFails(w)
    \/ \E w \in Workers, out \in GenReplies : CallModelForQuestions(w, out)
    \/ \E w \in Workers : ModelFails(w)
    \/ \E w \in Workers : ExtractAndStore(w)
    \/ \E w \in Workers, applied \in BOOLEAN : SetexFails(w, applied)
    \/ \E d \in {1, 3599} : Advance(d)

SpecQuestions == Init /\ [][NextQuestions]_vars

\* Both endpoints for one client, for the limiter: one job description, answers
\* with and without their keys and one reply to each prompt (four questions, so
\* nothing is cached); the clock's steps reach the last second of a window and
\* the first after it.
NextLimiter ==
    \/ \E w \in Workers : Arrive(w, "10.0.0.1", GenEp, <<"a">>, <<"c">>, <<>>)
    \/ \E w \in Workers, answers \in {<<Complete>>, <<{"answer"}>>} :
          Arrive(w, "10.0.0.1", AnaEp, <<>>, <<>>, answers)
    \/ \E w \in Workers : BuildMessagesFails(w)
    \/ \E w \in Workers : CacheGet(w)
    \/ \E w \in Workers : CacheGetFails(w)
    \/ \E w \in Workers : CallModelForQuestions(w, ShortReply)
    \/ \E w \in Workers : CallModelForFeedback(w, FullObject, "none")
    \/ \E w \in Workers : ModelFails(w)
    \/ \E w \in Workers : ExtractAndStore(w)
    \/ \E w \in Workers : ParseFeedback(w)
    \/ \E d \in {1, 59} : Advance(d)

SpecLimiter == Init /\ [][NextLimiter]_vars

\* Response analysis alone, for one client: answers with and without their
\* keys and every reply to the analysis prompt;
\* the clock moves by seconds.
NextFeedback ==
    \/ \E w \in Workers, answers \in {<<Complete>>, <<Complete, {"answer"}>>} :
          Arrive(w, "10.0.0.1", AnaEp, <<>>, <<>>, answers)
    \/ \E w \in Workers : BuildMessagesFails(w)
    \/ \E w \in Workers, body \in AnaBodies, wrap \in Wraps :
          CallModelForFeedback(w, body, wrap)
    \/ \E w \in Workers : ModelFails(w)
    \/ \E w \in Workers : ParseFeedback(w)
    \/ Advance(1)

SpecFeedback == Init /\ [][NextFeedback]_vars

\* Question generation in several instances of the service.  Each instance is
\* one run of line 232 (its port is PORT, line 231) with its own interpreter,
\* hash seed and limiter, and the environment points them to one Redis (lines
\* 84-89).  A handler has no await, so one process runs its requests one after
\* the other; the requests of different instances interleave at the cache and
\* at the completion call.  Instances with equal hash seeds use equal keys, and
\* all instances use one key for the empty job description.  Each instance
\* handles one request of one client, for ("a", "c") or the empty description.
\* Every path of lines 118-167 is taken: the read, the completion call and the
\* write may raise, a reply may hold 5 questions or not, and the clock moves.
InitInstances ==
    /\ seed \in {f \in [1..Instances -> Seeds] : f[1] = "seed 0"}
    /\ nworkers = Instances
    /\ now = 0
    /\ ticks = 0
    /\ limiter = [w \in 1..Instances |-> [k \in LimiterKeys |-> NoWindow]]
    /\ redis = [k \in CacheKeys(Seeds, InstancePairs) |-> NoEntry]
    /\ req = [w \in 1..Instances |-> Idle]
    /\ arrivals = [w \in 1..Instances |-> [k \in LimiterKeys |-> <<>>]]
    /\ freshAt = [w \in 1..Instances |-> [k \in LimiterKeys |-> -1]]
    /\ audit = [k \in CacheKeys(Seeds, InstancePairs) |-> NoAudit]
    /\ lastOk = [p \in InstancePairs |-> NoneOk]

NextInstances ==
    \/ \E w \in Workers :
          /\ req[w].pc = "idle"
          /\ \E p \in InstancePairs :
                Arrive(w, "10.0.0.1", GenEp, p[1], p[2], <<>>)
    \/ \E w \in Workers : CacheGet(w)
    \/ \E w \in Workers : CacheGetFails(w)
    \/ \E w \in Workers, out \in {GoodReply, OtherReply, ShortReply} :
          CallModelForQuestions(w, out)
    \/ \E w \in Workers : ModelFails(w)
    \/ \E w \in Workers : ExtractAndStore(w)
    \/ \E w \in Workers, applied \in BOOLEAN : SetexFails(w, applied)
    \/ ticks < InstanceTicks /\ Advance(1)

SpecInstances == InitInstances /\ [][NextInstances]_vars

(***************************************************************************)
(* Properties                                                               *)
(***************************************************************************)
\* The handler's body ran: the limiter admitted the request.
Admitted(r) == Len(r.effects) >= 2

Answered(r) == r.pc = "done"

\* The lines of a reply that pass the handler's filter.
Qualifying(text) == StripKept(SplitLines(text))

\* C1: an admitted generate-questions request, after any earlier requests and
\* on a cache hit as on a miss, answers 200 with exactly 5 strings or answers
\* 500 with no list; a reply with fewer or more than 5 qualifying lines is
\* answered 500, never cut or filled to 5.
C1_FiveOrError ==
    \A w \in Workers :
        LET r == req[w] IN
        (r.ep = GenEp /\ Admitted(r) /\ Answered(r)) =>
            /\ \/ r.status = 200 /\ Len(r.questions) = 5
               \/ r.status = 500
            /\ (r.text # <<>> /\ Len(Qualifying(r.text)) # 5) => r.status = 500
            /\ (r.text # <<>> /\ r.status = 200) => r.questions = Qualifying(r.text)

\* C1 witness: a reply with six qualifying lines was answered 500.
C1_Witness ==
    \E w \in Workers :
        /\ req[w].pc = "done" /\ req[w].status = 500
        /\ Len(Qualifying(req[w].text)) = 6

\* ^<digit>\. .+
MatchesPattern(q) ==
    /\ Len(q) >= 4
    /\ IsDigit(q[1])
    /\ q[2] = "."
    /\ q[3] = " "

\* C6: every string of a successful generate-questions response begins with
\* a digit followed immediately by ". " and one more character.
C6_EveryQuestionNumbered ==
    \A w \in Workers :
        LET r == req[w] IN
        (r.ep = GenEp /\ Answered(r) /\ r.status = 200) =>
            \A i \in 1..Len(r.questions) : MatchesPattern(r.questions[i])

\* C3: a generate-questions request that reads the cache while the entry left
\* or used by an earlier successful request for the same title and description
\* is within its hour returns that request's question set and calls no model.
C3_IdempotentOnHit ==
    \A w \in Workers :
        LET r == req[w] IN
        (r.ep = GenEp /\ r.prev # <<>>) =>
            /\ r.hit
            /\ r.status = 200
            /\ r.questions = r.prev
            /\ \A i \in 1..Len(r.effects) : r.effects[i] # "model"

\* C3 witness: a hit in the last second of the hour returns the earlier set.
C3_Witness ==
    \E w \in Workers :
        /\ req[w].prev # <<>> /\ req[w].hit
        /\ req[w].questions = req[w].prev
        /\ req[w].readAt - req[w].wroteAt = 3599

\* C8: a cache read hits exactly when the key was written less than 3600
\* seconds before it; a read that misses is followed by a model call.
C8_ExpiresAfterOneHour ==
    \A w \in Workers :
        LET r == req[w] IN
        (r.ep = GenEp /\ r.readAt # -1) =>
            /\ r.hit <=> (r.wroteAt # -1 /\ r.readAt - r.wroteAt < 3600)
            /\ (~r.hit /\ Answered(r)) =>
                   (Len(r.effects) >= 3 /\ r.effects[3] = "model")

\* C8 witness: a request whose key was written an hour or more before missed
\* the cache, called the model and answered 200.
C8_Witness ==
    \E w \in Workers :
        /\ req[w].stale /\ ~req[w].hit
        /\ req[w].pc = "done" /\ req[w].status = 200
        /\ req[w].effects = <<"limit", "read", "model", "write">>

IsPrefix(a, b) == Len(a) <= Len(b) /\ a = SubSeq(b, 1, Len(a))

\* C9 as stated: one generate-questions request does, each at most once and in
\* this order, the limiter's check, the cache read, the model call and the cache
\* write; it reads the cache only when admitted, calls the model only after a
\* miss and writes only 5 extracted questions; the cache changes only in a
\* step that writes (or by expiry), and a request answered 429 or 500 has left
\* it unchanged.
C9_FailureLeavesCache ==
    [][\A w \in Workers :
          LET r == req'[w] IN
          /\ IsPrefix(r.effects, <<"limit", "read", "model", "write">>)
          /\ r.status = 429 => r.effects = <<"limit">>
          /\ Len(r.effects) >= 3 => ~r.hit
          /\ Len(r.effects) = 4 => Len(r.questions) = 5
          /\ (r.status \in {429, 500} /\ req[w].status = 0) => redis' = redis
          /\ redis' # redis =>
                \/ now' # now
                \/ \E v \in Workers :
                      req'[v].effects = Append(req[v].effects, "write")
      ]_vars

\* C9 amended: the effects, their order and their conditions are as stated,
\* and nothing is done twice.  A request answered 429, or answered 500 before
\* it calls SETEX (the read raised, the model call raised, the count was not
\* 5), has left the cache unchanged, and a request answered 200 after a miss
\* has written its 5 questions; a request whose SETEX raised is answered 500,
\* whether or not the entry was stored.
C9_OrderedEffects ==
    [][\A w \in Workers :
          LET r == req'[w] IN
          /\ IsPrefix(r.effects, <<"limit", "read", "model", "write">>)
          /\ r.status = 429 => r.effects = <<"limit">>
          /\ Len(r.effects) >= 3 => ~r.hit
          /\ Len(r.effects) = 4 => Len(r.questions) = 5
          /\ (r.status = 200 /\ ~r.hit) => Len(r.effects) = 4
          /\ (r.status \in {429, 500} /\ req[w].status = 0 /\ Len(r.effects) < 4)
                => redis' = redis
          /\ (r.status = 200 /\ req[w].status = 0 /\ ~r.hit) =>
                redis'[cache_key(seed[w], r.title, r.desc)].val = PyStr(r.questions)
          /\ redis' # redis =>
                \/ now' # now
                \/ \E v \in Workers :
                      req'[v].effects = Append(req[v].effects, "write")
      ]_vars

\* C9 witness: a request whose SETEX raised was answered 500 and its 5
\* questions are in the cache.
C9_Witness ==
    \E w \in Workers :
        /\ req[w].status = 500
        /\ req[w].effects = <<"limit", "read", "model", "write">>
        /\ RedisGet(redis, cache_key(seed[w], req[w].title, req[w].desc), now)
               = PyStr(req[w].questions)

\* C10: a cache hit returns a question set generated for a request with the
\* same title and the same description.
C10_IsolatedByJobDescription ==
    \A w \in Workers :
        LET r == req[w] IN
        (r.ep = GenEp /\ r.hit) => r.src = <<r.title, r.desc>>

\* C2 as stated: the request that has 4 earlier requests of its client to its
\* endpoint in the preceding 60 seconds is accepted, and the one that has 5 is
\* rejected.
C2_SixthIn60sRejected ==
    \A w \in Workers :
        LET r == req[w] IN
        r.pc # "idle" =>
            /\ r.earlier = 4 => r.status # 429
            /\ r.earlier = 5 => r.status = 429

\* C2 amended: a request with fewer than 5 earlier requests of its client to
\* its endpoint in the preceding 60 seconds is accepted; counted from a request
\* that followed 60 seconds without requests, the 6th and later requests within
\* 60 seconds are rejected.
C2_FixedWindow ==
    \A w \in Workers :
        LET r == req[w] IN
        r.pc # "idle" =>
            /\ r.earlier < 5 => r.status # 429
            /\ (r.fresh /\ r.earlier >= 5) => r.status = 429

\* C2 witness: the 6th request of a window, in its last second, was rejected.
C2_Witness ==
    \E w \in Workers :
        /\ req[w].fresh /\ req[w].earlier = 5
        /\ req[w].at = 59 /\ req[w].status = 429

\* The FeedbackReport shape of a parsed reply.
MatchesShape(dict) ==
    /\ \A k \in ScoreKeys : HasKey(dict, k) /\ Get(dict, k) = "int7"
    /\ \A i \in 1..Len(ListKeys) :
          HasKey(dict, ListKeys[i]) /\ JsonType(Get(dict, ListKeys[i])) = "list"

\* C5: analyze-responses answers 200 only with a feedback of the
\* FeedbackReport shape: six fields, scores integers in 0..10, lists of strings.
C5_OnlyWellShapedFeedback ==
    \A w \in Workers :
        LET r == req[w] IN
        (r.ep = AnaEp /\ Answered(r) /\ r.status = 200) => MatchesShape(r.feedback)

\* C7: a reply that is a fence line, a text that does not itself begin with a
\* fence, and a closing fence line is answered as the text alone is answered.
C7_FenceTransparent ==
    \A w \in Workers :
        LET r == req[w] IN
        (r.ep = AnaEp /\ Answered(r) /\ r.wrap # "none" /\ ~StartsWithFence(r.body)) =>
            [status |-> r.status, feedback |-> r.feedback] = AnalyzeText(r.body)

\* C7 witness: a fenced object of several lines was answered 200.
C7_Witness ==
    \E w \in Workers :
        /\ req[w].pc = "done" /\ req[w].wrap = "fence json"
        /\ req[w].body = MultiLineObject /\ req[w].status = 200

\* C4 as stated: a write that replaces the entry which a concurrent request
\* for the same key stored after both had missed stores the same question set.
C4_EquivalentWrites ==
    \A w \in Workers :
        LET r == req[w] IN
        r.overwrote # <<>> => r.overwrote = PyStr(r.questions)

\* C4 amended: every request that missed the cache went on to the completion
\* call, and one answered 200 after a miss returns the 5 questions extracted
\* from its own reply and has written them.  The last write wins: the cache
\* holds, under every live key, the question set of the last SETEX the server
\* carried out, and a cache hit returns the set the cache held when it was read.
C4_LastWriteWins ==
    /\ \A k \in DOMAIN redis :
          RedisGet(redis, k, now) # <<>> =>
              PyEval(redis[k].val) = [ok |-> TRUE, val |-> audit[k].qs]
    /\ \A w \in Workers :
          LET r == req[w] IN
          /\ r.hit => (r.status = 200 /\ r.questions = r.held)
          /\ (Answered(r) /\ r.readAt # -1 /\ ~r.hit) =>
                 (Len(r.effects) >= 3 /\ r.effects[3] = "model")
          /\ (Answered(r) /\ r.status = 200 /\ ~r.hit) =>
                 /\ r.effects = <<"limit", "read", "model", "write">>
                 /\ r.questions = ExtractQuestions(r.text)
                 /\ Len(r.questions) = 5

\* C4 witness: a request overwrote the different question set that a
\* concurrent request for the same title and description had stored, and was
\* answered 200 with its own set.
C4_Witness ==
    \E w \in Workers :
        /\ req[w].overwrote # <<>>
        /\ req[w].overwrote # PyStr(req[w].questions)
        /\ req[w].status = 200

====
